---- MODULE Spec2Model ----
(***************************************************************************)
(* Model of app.py: the rooftop solar analysis tool.                       *)
(*                                                                         *)
(* Python strings are sequences of one-character strings.  Python floats   *)
(* are modelled as exact rationals [n, d] in lowest terms (d > 0); the     *)
(* values the program computes are far from every rounding boundary the    *)
(* properties below look at.                                               *)
(***************************************************************************)
EXTENDS Integers, Sequences, FiniteSets, TLC

VARIABLES
    arg,                 \* perform_simplified_calculations: the ai_analysis argument
    ret,                 \* its outcome: a returned record or a raised exception
    cpc,                 \* position of the direct call: "entry" or "exit"
    pc,                  \* main: position in the script run
    uploaded_file,       \* main: the uploaded image bytes, or NoFile
    image_base64,        \* main: the encoded image
    request,             \* the request sent to the external service
    response,            \* the outcome of client.chat.completions.create
    ai_analysis_result,  \* main: what get_roof_analysis_from_ai gave back
    calculations,        \* main: what perform_simplified_calculations gave back
    screen,              \* main: the sequence of streamlit elements written so far
    api_calls,           \* number of requests sent to the external service
    calc_calls           \* number of times main called perform_simplified_calculations

calcVars == <<arg, ret, cpc>>
mainVars == <<pc, uploaded_file, image_base64, request, response,
              ai_analysis_result, calculations, screen, api_calls, calc_calls>>
vars == <<arg, ret, cpc, pc, uploaded_file, image_base64, request, response,
          ai_analysis_result, calculations, screen, api_calls, calc_calls>>

----------------------------------------------------------------------------
(* Bounds of the model *)

\* number of fragments concatenated into a 'usable_area_qualitative' string
MaxAreaFrags == 3
\* number of fragments concatenated into a 'sunlight_exposure' string
MaxSunFrags == 3

----------------------------------------------------------------------------
(* Program constants *)

PANEL_WATTAGE == 400
PANEL_AREA_SQ_FT == 18
\* 70.00 and 6.50 as rationals
PANEL_COST_PER_WATT == [n |-> 70, d |-> 1]
AVG_ELECTRICITY_RATE_PER_KWH == [n |-> 13, d |-> 2]
SYSTEM_LIFESPAN_YEARS == 25

----------------------------------------------------------------------------
(* Python str: lower() and the `in` substring test *)

UpperChars == <<"A","B","C","D","E","F","G","H","I","J","K","L","M",
                "N","O","P","Q","R","S","T","U","V","W","X","Y","Z">>
LowerChars == <<"a","b","c","d","e","f","g","h","i","j","k","l","m",
                "n","o","p","q","r","s","t","u","v","w","x","y","z">>

LowerChar(c) ==
    IF \E i \in 1..26 : UpperChars[i] = c
    THEN LowerChars[CHOOSE i \in 1..26 : UpperChars[i] = c]
    ELSE c

UpperChar(c) ==
    IF \E i \in 1..26 : LowerChars[i] = c
    THEN UpperChars[CHOOSE i \in 1..26 : LowerChars[i] = c]
    ELSE c

\* str.lower()
Lower(s) == [i \in 1..Len(s) |-> LowerChar(s[i])]

\* str.capitalize()
Capitalize(s) ==
    [i \in 1..Len(s) |-> IF i = 1 THEN UpperChar(s[i]) ELSE LowerChar(s[i])]

RECURSIVE FindFrom(_, _, _)
FindFrom(needle, hay, i) ==
    IF i + Len(needle) - 1 > Len(hay) THEN FALSE
    ELSE IF SubSeq(hay, i, i + Len(needle) - 1) = needle THEN TRUE
    ELSE FindFrom(needle, hay, i + 1)

\* needle in hay
In(needle, hay) == FindFrom(needle, hay, 1)

KwLarge == <<"l","a","r","g","e">>
KwMedium == <<"m","e","d","i","u","m">>
KwSmall == <<"s","m","a","l","l">>
KwExcellent == <<"e","x","c","e","l","l","e","n","t">>
KwModerate == <<"m","o","d","e","r","a","t","e">>
KwPoor == <<"p","o","o","r">>
KwSignificantShading ==
    <<"s","i","g","n","i","f","i","c","a","n","t"," ","s","h","a","d","i","n","g">>
StrNA == <<"N","/","A">>

----------------------------------------------------------------------------
(* Python numbers: exact rationals in lowest terms *)

RECURSIVE GCD(_, _)
GCD(a, b) == IF b = 0 THEN a ELSE GCD(b, a % b)

Abs(x) == IF x < 0 THEN -x ELSE x

Rat(n, d) ==
    LET g == GCD(Abs(n), Abs(d))
        s == IF d < 0 THEN -1 ELSE 1
    IN  [n |-> s * (n \div g), d |-> s * (d \div g)]

RatInt(k) == [n |-> k, d |-> 1]

\* a * b, cross-reduced before multiplying
RatMul(a, b) ==
    LET g1 == GCD(Abs(a.n), b.d)
        g2 == GCD(Abs(b.n), a.d)
    IN  [n |-> (a.n \div g1) * (b.n \div g2), d |-> (a.d \div g2) * (b.d \div g1)]

\* a / b for b # 0
RatDiv(a, b) == RatMul(a, Rat(b.d, b.n))

RatLess(a, b) == a.n * b.d < b.n * a.d

RatZero == RatInt(0)

\* r rounded to a count of 1/scale units, half up
RoundTo(r, scale) == (2 * scale * r.n + r.d) \div (2 * r.d)

----------------------------------------------------------------------------
(* JSON values as Python objects: a tag and a payload *)

JStr(s) == [t |-> "str", v |-> s]
JNull == [t |-> "null", v |-> <<>>]
JNum(digits) == [t |-> "num", v |-> digits]
JList(items) == [t |-> "list", v |-> items]
JObj(f) == [t |-> "obj", v |-> f]

\* dict.get(key, default)
Get(d, key, default) == IF key \in DOMAIN d THEN d[key] ELSE default

\* hasattr(x, 'lower'): only str has lower() and capitalize()
IsStr(x) == x.t = "str"

----------------------------------------------------------------------------
(* perform_simplified_calculations *)

\* lines 85-92, on the lowered string
AreaLookupSwapped(s) ==
    IF In(KwMedium, s) THEN 300
    ELSE IF In(KwLarge, s) THEN 600
    ELSE IF In(KwSmall, s) THEN 100
    ELSE 0

AreaLookup(s) ==
    IF In(KwLarge, s) THEN 600
    ELSE IF In(KwMedium, s) THEN 300
    ELSE IF In(KwSmall, s) THEN 100
    ELSE 0

\* math.floor of a rational
Floor(r) == r.n \div r.d

PanelCountCeil(area) ==
    IF area > 0 THEN Floor(Rat(area + PANEL_AREA_SQ_FT - 1, PANEL_AREA_SQ_FT)) ELSE 0

\* lines 95-98
PanelCount(area) ==
    IF area > 0 THEN Floor(Rat(area, PANEL_AREA_SQ_FT)) ELSE 0

\* line 101
SystemWattage(panel_count) == panel_count * PANEL_WATTAGE

ProductionFactorNoShading(s) ==
    IF In(KwExcellent, s) THEN Rat(12, 10)
    ELSE IF In(KwModerate, s) THEN Rat(8, 10)
    ELSE IF In(KwPoor, s) THEN Rat(5, 10)
    ELSE RatInt(1)

\* lines 104-110, on the lowered string
ProductionFactor(s) ==
    IF In(KwExcellent, s) THEN Rat(12, 10)
    ELSE IF In(KwModerate, s) THEN Rat(8, 10)
    ELSE IF In(KwPoor, s) \/ In(KwSignificantShading, s) THEN Rat(5, 10)
    ELSE RatInt(1)

YearlyKwhDividedByFactor(wattage, factor) ==
    IF wattage > 0
    THEN RatDiv(RatDiv(RatMul(RatInt(wattage), Rat(14, 10)), factor), RatInt(1000))
    ELSE RatZero

\* line 115
YearlyKwh(wattage, factor) ==
    IF wattage > 0
    THEN RatDiv(RatMul(RatMul(RatInt(wattage), Rat(14, 10)), factor), RatInt(1000))
    ELSE RatZero

SystemCostPerKw(wattage) ==
    IF wattage > 0
    THEN RatMul(RatDiv(RatInt(wattage), RatInt(1000)), PANEL_COST_PER_WATT)
    ELSE RatZero

\* line 118
SystemCost(wattage) ==
    IF wattage > 0
    THEN RatMul(RatMul(RatDiv(RatInt(wattage), RatInt(1000)), PANEL_COST_PER_WATT),
                RatInt(1000))
    ELSE RatZero

\* line 121
YearlySavings(yearly_kwh) == RatMul(yearly_kwh, AVG_ELECTRICITY_RATE_PER_KWH)

RoiNA == [t |-> "str", v |-> "N/A (No significant savings)"]

RoiYearsThreshold(cost, savings) ==
    IF RatLess(RatInt(10), savings)
    THEN [t |-> "float", v |-> RatDiv(cost, savings)]
    ELSE RoiNA

\* lines 124-127
RoiYears(cost, savings) ==
    IF RatLess(RatZero, savings)
    THEN [t |-> "float", v |-> RatDiv(cost, savings)]
    ELSE RoiNA

\* lines 85-127: the local variables computed from the two lowered strings
Locals(usable_area_qualitative, sunlight_exposure) ==
    LET estimated_usable_sq_ft == AreaLookup(usable_area_qualitative)
        estimated_panel_count == PanelCount(estimated_usable_sq_ft)
        estimated_system_wattage == SystemWattage(estimated_panel_count)
        production_factor == ProductionFactor(sunlight_exposure)
        estimated_yearly_kwh == YearlyKwh(estimated_system_wattage, production_factor)
        estimated_system_cost == SystemCost(estimated_system_wattage)
        estimated_yearly_savings == YearlySavings(estimated_yearly_kwh)
    IN  [estimated_usable_sq_ft |-> estimated_usable_sq_ft,
         estimated_panel_count |-> estimated_panel_count,
         estimated_system_wattage |-> estimated_system_wattage,
         estimated_yearly_kwh |-> estimated_yearly_kwh,
         estimated_system_cost |-> estimated_system_cost,
         estimated_yearly_savings |-> estimated_yearly_savings,
         estimated_roi_years |-> RoiYears(estimated_system_cost, estimated_yearly_savings),
         production_factor |-> production_factor]

EstimateKeys ==
    {"estimated_usable_sq_ft", "estimated_panel_count", "estimated_system_wattage",
     "estimated_yearly_kwh", "estimated_system_cost", "estimated_yearly_savings",
     "estimated_roi_years"}

\* lines 129-137: the returned dict
ReturnDict(locals) == [k \in EstimateKeys |-> locals[k]]

NoValue == <<>>
\* the outcome of a call of perform_simplified_calculations: the returned dict
\* and the production_factor local at the return, or the exception raised
CalcReturned(locals) ==
    [raised |-> FALSE, exc |-> "", value |-> ReturnDict(locals),
     production_factor |-> locals.production_factor]
CalcRaised(e) ==
    [raised |-> TRUE, exc |-> e, value |-> NoValue, production_factor |-> RatZero]

\* lines 80-137; .lower() on a value that is not a str raises AttributeError
perform_simplified_calculations(ai_analysis) ==
    LET area == Get(ai_analysis, "usable_area_qualitative", JStr(StrNA))
        sun == Get(ai_analysis, "sunlight_exposure", JStr(StrNA))
    IN  IF ~IsStr(area) \/ ~IsStr(sun)
        THEN CalcRaised("AttributeError")
        ELSE CalcReturned(Locals(Lower(area.v), Lower(sun.v)))

----------------------------------------------------------------------------
(* Inputs of the direct calls of perform_simplified_calculations *)

RECURSIVE Concats(_, _)
Concats(F, k) ==
    IF k = 0 THEN {<<>>}
    ELSE LET P == Concats(F, k - 1) IN P \cup {p \o f : p \in P, f \in F}

AreaFrags ==
    { <<"l","a","r","g","e">>, <<"M","e","d","i","u","m">>, <<"S","M","A","L","L">>,
      <<"-">>, <<" ","t","o"," ">>, <<"l","a","r">> }

SunFrags ==
    { <<"e","x","c","e","l","l","e","n","t">>, <<"M","o","d","e","r","a","t","e">>,
      <<"P","O","O","R">>, <<"g","o","o","d">>, <<" ","-"," ">>,
      <<"S","i","g","n","i","f","i","c","a","n","t"," ","s","h","a","d","i","n","g">> }

AreaStrings == Concats(AreaFrags, MaxAreaFrags)
SunStrings == Concats(SunFrags, MaxSunFrags)

Absent == [t |-> "absent", v |-> <<>>]
NonStrValues == { JNull, JNum(<<"4","2">>), JList(<<>>) }

\* the dict with the given field values; an Absent field is a missing key
Dict(area, sun) ==
    LET D == {k \in {"usable_area_qualitative", "sunlight_exposure"} :
                 IF k = "usable_area_qualitative" THEN area # Absent ELSE sun # Absent}
    IN  [k \in D |-> IF k = "usable_area_qualitative" THEN area ELSE sun]

\* the values of a field: the strings, the values that are no string, no key
FieldValues(strings) == {JStr(x) : x \in strings} \cup NonStrValues \cup {Absent}

\* every value of one field with the other field at most one fragment long
CalcArgs ==
    { Dict(a, s) : a \in FieldValues(AreaStrings),
                   s \in FieldValues(Concats(SunFrags, 1)) }
    \cup
    { Dict(a, s) : a \in FieldValues(Concats(AreaFrags, 1)),
                   s \in FieldValues(SunStrings) }

NotCalled == CalcRaised("not called")

----------------------------------------------------------------------------
(* encode_image: base64.b64encode(bytes).decode('utf-8') *)

B64Alphabet ==
    <<"A","B","C","D","E","F","G","H","I","J","K","L","M","N","O","P",
      "Q","R","S","T","U","V","W","X","Y","Z","a","b","c","d","e","f",
      "g","h","i","j","k","l","m","n","o","p","q","r","s","t","u","v",
      "w","x","y","z","0","1","2","3","4","5","6","7","8","9","+","/">>

B64Char(sextet) == B64Alphabet[sextet + 1]

RECURSIVE B64Encode(_)
B64Encode(bytes) ==
    IF Len(bytes) = 0 THEN <<>>
    ELSE IF Len(bytes) = 1
    THEN <<B64Char(bytes[1] \div 4), B64Char((bytes[1] % 4) * 16), "=", "=">>
    ELSE IF Len(bytes) = 2
    THEN <<B64Char(bytes[1] \div 4),
           B64Char((bytes[1] % 4) * 16 + bytes[2] \div 16),
           B64Char((bytes[2] % 16) * 4), "=">>
    ELSE <<B64Char(bytes[1] \div 4),
           B64Char((bytes[1] % 4) * 16 + bytes[2] \div 16),
           B64Char((bytes[2] % 16) * 4 + bytes[3] \div 64),
           B64Char(bytes[3] % 64)>> \o B64Encode(SubSeq(bytes, 4, Len(bytes)))

\* lines 31-35
encode_image(file) == B64Encode(file.bytes)

----------------------------------------------------------------------------
(* json.loads on the text of the reply.  A text is a sequence of chunks: the *)
(* punctuation marks, the quote, single characters, and whole words for keys *)
(* and bare literals.                                                        *)

Punct == {"{", "}", "[", "]", ":", ","}
Blank == {" ", "\n"}
Digits == {"0","1","2","3","4","5","6","7","8","9"}
Quote == "\""

Tok(k, s) == [k |-> k, s |-> s]

\* the index of the first chunk at or after i that is c, or 0
RECURSIVE IndexFrom(_, _, _)
IndexFrom(text, c, i) ==
    IF i > Len(text) THEN 0
    ELSE IF text[i] = c THEN i
    ELSE IndexFrom(text, c, i + 1)

\* the index after the run of digits starting at i
RECURSIVE DigitsEnd(_, _)
DigitsEnd(text, i) ==
    IF i <= Len(text) /\ text[i] \in Digits THEN DigitsEnd(text, i + 1) ELSE i

RECURSIVE LexFrom(_, _, _)
LexFrom(text, i, acc) ==
    IF i > Len(text) THEN [ok |-> TRUE, toks |-> acc, msg |-> ""]
    ELSE IF text[i] \in Blank THEN LexFrom(text, i + 1, acc)
    ELSE IF text[i] \in Punct
    THEN LexFrom(text, i + 1, Append(acc, Tok("punct", <<text[i]>>)))
    ELSE IF text[i] = Quote
    THEN LET j == IndexFrom(text, Quote, i + 1)
         IN  IF j = 0
             THEN [ok |-> FALSE, toks |-> acc, msg |-> "Unterminated string starting at"]
             ELSE LexFrom(text, j + 1, Append(acc, Tok("str", SubSeq(text, i + 1, j - 1))))
    ELSE IF text[i] \in Digits
    THEN LET j == DigitsEnd(text, i)
         IN  LexFrom(text, j, Append(acc, Tok("num", SubSeq(text, i, j - 1))))
    ELSE LexFrom(text, i + 1, Append(acc, Tok("word", <<text[i]>>)))

ParseFail(m) == [ok |-> FALSE, val |-> JNull, next |-> 0, msg |-> m]
ParseOk(x, next) == [ok |-> TRUE, val |-> x, next |-> next, msg |-> ""]

IsPunct(toks, i, c) == i <= Len(toks) /\ toks[i] = Tok("punct", <<c>>)

\* the name of a key: keys are written as one chunk
KeyName(s) == IF Len(s) = 1 THEN s[1] ELSE ""

EmptyDict == [k \in {} |-> JNull]
DictSet(d, key, val) == [k \in DOMAIN d \cup {key} |-> IF k = key THEN val ELSE d[k]]

RECURSIVE ParseValue(_, _), ParsePairs(_, _, _), ParseItems(_, _, _)
ParseValue(toks, i) ==
    IF i > Len(toks) THEN ParseFail("Expecting value")
    ELSE IF toks[i].k = "str" THEN ParseOk(JStr(toks[i].s), i + 1)
    ELSE IF toks[i].k = "num" THEN ParseOk(JNum(toks[i].s), i + 1)
    ELSE IF toks[i].k = "word"
    THEN IF toks[i].s = <<"null">> THEN ParseOk(JNull, i + 1)
         ELSE IF toks[i].s \in {<<"true">>, <<"false">>}
         THEN ParseOk([t |-> "bool", v |-> toks[i].s], i + 1)
         ELSE ParseFail("Expecting value")
    ELSE IF IsPunct(toks, i, "{")
    THEN IF IsPunct(toks, i + 1, "}") THEN ParseOk(JObj(EmptyDict), i + 2)
         ELSE ParsePairs(toks, i + 1, EmptyDict)
    ELSE IF IsPunct(toks, i, "[")
    THEN IF IsPunct(toks, i + 1, "]") THEN ParseOk(JList(<<>>), i + 2)
         ELSE ParseItems(toks, i + 1, <<>>)
    ELSE ParseFail("Expecting value")

ParsePairs(toks, i, acc) ==
    IF ~(i <= Len(toks) /\ toks[i].k = "str")
    THEN ParseFail("Expecting property name enclosed in double quotes")
    ELSE IF ~IsPunct(toks, i + 1, ":") THEN ParseFail("Expecting ':' delimiter")
    ELSE LET r == ParseValue(toks, i + 2)
         IN  IF ~r.ok THEN r
             ELSE LET d == DictSet(acc, KeyName(toks[i].s), r.val)
                  IN  IF IsPunct(toks, r.next, ",") THEN ParsePairs(toks, r.next + 1, d)
                      ELSE IF IsPunct(toks, r.next, "}") THEN ParseOk(JObj(d), r.next + 1)
                      ELSE ParseFail("Expecting ',' delimiter")

ParseItems(toks, i, acc) ==
    LET r == ParseValue(toks, i)
    IN  IF ~r.ok THEN r
        ELSE IF IsPunct(toks, r.next, ",")
        THEN ParseItems(toks, r.next + 1, Append(acc, r.val))
        ELSE IF IsPunct(toks, r.next, "]")
        THEN ParseOk(JList(Append(acc, r.val)), r.next + 1)
        ELSE ParseFail("Expecting ',' delimiter")

\* json.loads(text): the value, or JSONDecodeError with its message
JsonLoads(text) ==
    LET lx == LexFrom(text, 1, <<>>)
    IN  IF ~lx.ok THEN ParseFail(lx.msg)
        ELSE LET r == ParseValue(lx.toks, 1)
             IN  IF ~r.ok THEN r
                 ELSE IF r.next <= Len(lx.toks) THEN ParseFail("Extra data")
                 ELSE r

----------------------------------------------------------------------------
(* get_roof_analysis_from_ai *)

MAX_TOKENS == 500

NoContent == [t |-> "none", v |-> <<>>]
TextContent(text) == [t |-> "str", v |-> text]

\* the outcomes of client.chat.completions.create
RaisedBy(e) == [kind |-> "raise", exc |-> e, choices |-> 0, content |-> NoContent]
Reply(n, content) == [kind |-> "reply", exc |-> "", choices |-> n, content |-> content]
NoResponse == [kind |-> "none", exc |-> "", choices |-> 0, content |-> NoContent]

\* lines 40-69: the request sent
Request(b64) ==
    [model |-> "openai/gpt-4o",
     url |-> <<"data:image/jpeg;base64,">> \o b64,
     max_tokens |-> MAX_TOKENS,
     response_format |-> "json_object"]
NoRequest ==
    [model |-> "", url |-> <<>>, max_tokens |-> 0, response_format |-> ""]

El(el, label, v) == [el |-> el, label |-> label, v |-> v]

\* the outcome of a call: the value returned and what it wrote to the page,
\* or the exception that left the function
Returned(x, shown) == [raised |-> FALSE, exc |-> "", value |-> x, shown |-> shown]
Escaped(e) == [raised |-> TRUE, exc |-> e, value |-> JNull, shown |-> <<>>]

\* line 77
GenericError(e) ==
    JObj([k \in {"error"} |-> JStr(<<"Error during AI analysis: ", e>>)])

\* line 75
ParseError(msg, raw) ==
    JObj([k \in {"error", "raw_response"} |->
            IF k = "error" THEN JStr(<<"JSON parsing error: ", msg>>) ELSE raw])

get_roof_analysis_no_generic_handler(resp) ==
    IF resp.kind = "raise" THEN Escaped(resp.exc)
    ELSE IF resp.choices = 0 THEN Escaped("IndexError")
    ELSE IF resp.content.t # "str" THEN Escaped("TypeError")
    ELSE LET r == JsonLoads(resp.content.v)
         IN  IF r.ok THEN Returned(r.val, <<>>)
             ELSE Returned(ParseError(r.msg, JStr(resp.content.v)),
                           <<El("error", "Failed to parse AI response as JSON",
                                JStr(resp.content.v))>>)

\* lines 38-77, from the outcome of the request on
get_roof_analysis_from_ai(resp) ==
    IF resp.kind = "raise" THEN Returned(GenericError(resp.exc), <<>>)
    ELSE IF resp.choices = 0 THEN Returned(GenericError("IndexError"), <<>>)
    ELSE IF resp.content.t # "str" THEN Returned(GenericError("TypeError"), <<>>)
    ELSE LET r == JsonLoads(resp.content.v)
         IN  IF r.ok THEN Returned(r.val, <<>>)
             ELSE Returned(ParseError(r.msg, JStr(resp.content.v)),
                           <<El("error", "Failed to parse AI response as JSON",
                                JStr(resp.content.v))>>)

----------------------------------------------------------------------------
(* main: idle values, used while perform_simplified_calculations is called directly *)

NoFile == [present |-> FALSE, bytes |-> <<>>]
File(bytes) == [present |-> TRUE, bytes |-> bytes]

MainIdle ==
    /\ pc = "start"
    /\ uploaded_file = NoFile
    /\ image_base64 = <<>>
    /\ request = NoRequest
    /\ response = NoResponse
    /\ ai_analysis_result = JNull
    /\ calculations = NotCalled
    /\ screen = <<>>
    /\ api_calls = 0
    /\ calc_calls = 0

----------------------------------------------------------------------------
(* Direct calls of perform_simplified_calculations on every input *)

InitCalc ==
    /\ arg \in CalcArgs
    /\ ret = NotCalled
    /\ cpc = "entry"
    /\ MainIdle

Calculate ==
    /\ cpc = "entry"
    /\ ret' = perform_simplified_calculations(arg)
    /\ cpc' = "exit"
    /\ UNCHANGED <<arg, mainVars>>

NextCalc == Calculate

SpecCalc == InitCalc /\ [][NextCalc]_vars

----------------------------------------------------------------------------
(* The replies of the external service *)

Quoted(s) == <<Quote>> \o s \o <<Quote>>
Member(key, value) == Quoted(<<key>>) \o <<":">> \o value

RECURSIVE JoinMembers(_)
JoinMembers(ms) ==
    IF Len(ms) = 0 THEN <<>>
    ELSE IF Len(ms) = 1 THEN ms[1]
    ELSE ms[1] \o <<",">> \o JoinMembers(Tail(ms))

\* the text of an object with the given members; an empty member is left out
ObjectText(ms) ==
    <<"{">> \o JoinMembers(SelectSeq(ms, LAMBDA m : m # <<>>)) \o <<"}">>

ErrorMembers == { <<>>, Member("error", Quoted(<<"q","u","o","t","a">>)) }
ShapeMember == Member("roof_shape", Quoted(<<"rectangular">>))
ObstacleMembers ==
    { <<>>,
      Member("main_obstacles",
             <<"[">> \o Quoted(<<"chimney">>) \o <<",">> \o Quoted(<<"vent">>) \o <<"]">>),
      Member("main_obstacles", <<"null">>) }
SunMembers ==
    { <<>>,
      Member("sunlight_exposure", Quoted(<<"E","x","c","e","l","l","e","n","t">>)),
      Member("sunlight_exposure", <<"null">>) }
AreaMembers ==
    { <<>>,
      Member("usable_area_qualitative", Quoted(<<"L","a","r","g","e">>)),
      Member("usable_area_qualitative", Quoted(<<"s","m","a","l","l">>)),
      Member("usable_area_qualitative", <<"4", "2">>) }

CompleteTexts ==
    { ObjectText(<<e, ShapeMember, o, s, a>>) :
        e \in ErrorMembers, o \in ObstacleMembers, s \in SunMembers, a \in AreaMembers }
    \cup { <<"null">>, <<"[", "]">>, <<"Sorry", ",", " ", "I", " ", "cannot">> }

\* a reply may be cut anywhere by the max_tokens cap
Prefixes(x) == { SubSeq(x, 1, k) : k \in 0..Len(x) }
Texts == UNION { Prefixes(x) : x \in CompleteTexts }

Responses ==
    { RaisedBy(e) : e \in {"APIConnectionError", "AuthenticationError",
                           "RateLimitError", "InternalServerError"} }
    \cup { Reply(0, NoContent), Reply(1, NoContent) }
    \cup { Reply(1, TextContent(x)) : x \in Texts }

Images == { <<255, 216, 255, 224>>, <<137, 80>>, <<77>>, <<>> }

----------------------------------------------------------------------------
(* main *)

\* lines 140-143
PageHeader ==
    << El("write", "WattMonk Assignment - AI-Powered Rooftop Solar Analysis Tool", JNull),
       El("title", "AI-Powered Rooftop Solar Analysis Tool", JNull),
       El("write", "Upload a satellite image of a rooftop to assess its solar potential.",
          JNull) >>

\* lines 148-150
UploadNotices(file) ==
    << El("image", "Uploaded Satellite Image.", JList(file.bytes)),
       El("success", "Image uploaded successfully!", JNull),
       El("info", "Initiating solar analysis...", JNull) >>

Exception(e, where) == El("exception", where, JStr(<<e>>))

StrError == <<"e","r","r","o","r">>

\* line 159: whether `"error" in x` can be evaluated (dict, list, str)
CanContain(x) == x.t \in {"obj", "list", "str"}

error_in_never(x) == FALSE

\* line 159: "error" in ai_analysis_result
error_in(x) ==
    IF x.t = "obj" THEN "error" \in DOMAIN x.v
    ELSE IF x.t = "list"
    THEN \E i \in 1..Len(x.v) :
            x.v[i].t = "str" /\ x.v[i].v \in {StrError, <<"error">>}
    ELSE In(StrError, x.v) \/ In(<<"error">>, x.v)

\* lines 160-163
FailureLines(d) ==
    <<El("error", "Analysis failed", d["error"])>>
    \o (IF "raw_response" \in DOMAIN d
        THEN <<El("text", "Raw AI Response (for debugging):", JNull),
               El("code", "", d["raw_response"])>>
        ELSE <<>>)

RECURSIVE JoinStrs(_)
JoinStrs(items) ==
    IF Len(items) = 0 THEN <<>>
    ELSE IF Len(items) = 1 THEN items[1]
    ELSE items[1] \o <<", ">> \o JoinStrs(Tail(items))

RECURSIVE KeysInSomeOrder(_)
KeysInSomeOrder(S) ==
    IF S = {} THEN <<>>
    ELSE LET k == CHOOSE k \in S : TRUE IN <<<<k>>>> \o KeysInSomeOrder(S \ {k})

\* line 167: whether ', '.join(x) accepts x
Joinable(x) ==
    \/ x.t = "str"
    \/ x.t = "obj"
    \/ x.t = "list" /\ \A i \in 1..Len(x.v) : x.v[i].t = "str"

\* line 167: ', '.join(x)
Join(x) ==
    IF x.t = "str" THEN JoinStrs([i \in 1..Len(x.v) |-> <<x.v[i]>>])
    ELSE IF x.t = "obj" THEN JoinStrs(KeysInSomeOrder(DOMAIN x.v))
    ELSE JoinStrs([i \in 1..Len(x.v) |-> x.v[i].v])

\* lines 166-170: the lines written, up to the one that raises
AnalysisLines(x) ==
    IF x.t # "obj" THEN [raised |-> TRUE, exc |-> "AttributeError", shown |-> <<>>]
    ELSE
    LET d == x.v
        obstacles == Get(d, "main_obstacles", JList(<<JStr(<<"None">>)>>))
        sun == Get(d, "sunlight_exposure", JStr(StrNA))
        area == Get(d, "usable_area_qualitative", JStr(StrNA))
        l166 == <<El("write", "Roof Shape", Get(d, "roof_shape", JStr(StrNA)))>>
        l167 == l166 \o <<El("write", "Main Obstacles", JStr(Join(obstacles)))>>
        l168 == l167 \o <<El("write", "Sunlight Exposure", JStr(Capitalize(sun.v)))>>
        l169 == l168 \o <<El("write", "Usable Area (Qualitative)",
                             JStr(Capitalize(area.v)))>>
        l170 == l169 \o <<El("write", "Overall Assessment",
                             Get(d, "overall_assessment", JStr(StrNA)))>>
    IN  IF ~Joinable(obstacles)
        THEN [raised |-> TRUE, exc |-> "TypeError", shown |-> l166]
        ELSE IF ~IsStr(sun)
        THEN [raised |-> TRUE, exc |-> "AttributeError", shown |-> l167]
        ELSE IF ~IsStr(area)
        THEN [raised |-> TRUE, exc |-> "AttributeError", shown |-> l168]
        ELSE [raised |-> FALSE, exc |-> "", shown |-> l170]

\* a number formatted with a fixed count of decimals: the count of 10^-k units
Fixed(r, scale) == [t |-> "fixed", v |-> <<RoundTo(r, scale), scale>>]

\* lines 176-182
EstimateLines(c) ==
    << El("write", "Estimated Usable Roof Area", Fixed(RatInt(c.estimated_usable_sq_ft), 1)),
       El("write", "Estimated Optimal Panel Count",
          Fixed(RatInt(c.estimated_panel_count), 1)),
       El("write", "Estimated System Size",
          Fixed(Rat(c.estimated_system_wattage, 1000), 100)),
       El("write", "Estimated Yearly Energy Production", Fixed(c.estimated_yearly_kwh, 1)),
       El("write", "Estimated System Cost", Fixed(c.estimated_system_cost, 100)),
       El("write", "Estimated Yearly Savings", Fixed(c.estimated_yearly_savings, 100)),
       El("write", "Estimated ROI (Payback Period)",
          IF c.estimated_roi_years.t = "float"
          THEN Fixed(c.estimated_roi_years.v, 10)
          ELSE c.estimated_roi_years) >>

\* lines 185-191
Notes == <<El("write", "Important Note on Estimates", JNull)>>

Init ==
    /\ MainIdle
    /\ arg = EmptyDict
    /\ ret = NotCalled
    /\ cpc = "idle"

\* lines 140-147, no file in the uploader: the run ends
NoUpload ==
    /\ pc = "start"
    /\ screen' = PageHeader
    /\ pc' = "done"
    /\ UNCHANGED <<calcVars, uploaded_file, image_base64, request, response,
                   ai_analysis_result, calculations, api_calls, calc_calls>>

\* lines 140-150
Upload ==
    /\ pc = "start"
    /\ \E b \in Images :
        /\ uploaded_file' = File(b)
        /\ screen' = PageHeader \o UploadNotices(File(b))
    /\ pc' = "uploaded"
    /\ UNCHANGED <<calcVars, image_base64, request, response,
                   ai_analysis_result, calculations, api_calls, calc_calls>>

\* line 152
Encode ==
    /\ pc = "uploaded"
    /\ image_base64' = encode_image(uploaded_file)
    /\ pc' = "encoded"
    /\ UNCHANGED <<calcVars, uploaded_file, request, response,
                   ai_analysis_result, calculations, screen, api_calls, calc_calls>>

\* lines 154-155, 40-69: the request goes out and the call blocks
SendRequest ==
    /\ pc = "encoded"
    /\ request' = Request(image_base64)
    /\ api_calls' = api_calls + 1
    /\ pc' = "waiting"
    /\ UNCHANGED <<calcVars, uploaded_file, image_base64, response,
                   ai_analysis_result, calculations, screen, calc_calls>>

\* lines 69-77, 155: the request ends and get_roof_analysis_from_ai returns
ReceiveResponse ==
    /\ pc = "waiting"
    /\ \E r \in Responses :
        LET out == get_roof_analysis_from_ai(r)
        IN  /\ response' = r
            /\ IF out.raised
               THEN /\ pc' = "crashed"
                    /\ screen' = Append(screen,
                                        Exception(out.exc, "get_roof_analysis_from_ai"))
                    /\ UNCHANGED ai_analysis_result
               ELSE /\ pc' = "analysed"
                    /\ screen' = screen \o out.shown
                    /\ ai_analysis_result' = out.value
    /\ UNCHANGED <<calcVars, uploaded_file, image_base64, request,
                   calculations, api_calls, calc_calls>>

AnalysisSubheader == El("subheader", "AI-Powered Rooftop Analysis:", JNull)
EstimatesSubheader == El("subheader", "Simplified Solar Potential Estimates:", JNull)

\* lines 157-159: the membership test raises on a value that is no container
TestRaises ==
    /\ pc = "analysed"
    /\ ~CanContain(ai_analysis_result)
    /\ screen' = screen \o <<AnalysisSubheader, Exception("TypeError", "main:159")>>
    /\ pc' = "crashed"
    /\ UNCHANGED <<calcVars, uploaded_file, image_base64, request, response,
                   ai_analysis_result, calculations, api_calls, calc_calls>>

\* lines 157-163: the failure branch
RenderFailure ==
    /\ pc = "analysed"
    /\ CanContain(ai_analysis_result)
    /\ error_in(ai_analysis_result)
    /\ IF ai_analysis_result.t = "obj"
       THEN /\ screen' = screen \o <<AnalysisSubheader>> \o FailureLines(ai_analysis_result.v)
            /\ pc' = "done"
       ELSE /\ screen' = screen \o <<AnalysisSubheader, Exception("TypeError", "main:160")>>
            /\ pc' = "crashed"
    /\ UNCHANGED <<calcVars, uploaded_file, image_base64, request, response,
                   ai_analysis_result, calculations, api_calls, calc_calls>>

\* lines 157-170: the success branch, up to the estimates
RenderAnalysis ==
    /\ pc = "analysed"
    /\ CanContain(ai_analysis_result)
    /\ ~error_in(ai_analysis_result)
    /\ LET a == AnalysisLines(ai_analysis_result)
       IN  IF a.raised
           THEN /\ screen' = screen \o <<AnalysisSubheader>> \o a.shown
                                \o <<Exception(a.exc, "main:166-170")>>
                /\ pc' = "crashed"
           ELSE /\ screen' = screen \o <<AnalysisSubheader>> \o a.shown
                /\ pc' = "shown"
    /\ UNCHANGED <<calcVars, uploaded_file, image_base64, request, response,
                   ai_analysis_result, calculations, api_calls, calc_calls>>

\* lines 172-174
RunCalculations ==
    /\ pc = "shown"
    /\ calc_calls' = calc_calls + 1
    /\ LET c == perform_simplified_calculations(ai_analysis_result.v)
       IN  /\ calculations' = c
           /\ IF c.raised
              THEN /\ screen' = screen \o <<EstimatesSubheader, Exception(c.exc, "main:174")>>
                   /\ pc' = "crashed"
              ELSE /\ screen' = Append(screen, EstimatesSubheader)
                   /\ pc' = "calculated"
    /\ UNCHANGED <<calcVars, uploaded_file, image_base64, request, response,
                   ai_analysis_result, api_calls>>

\* lines 176-191
RenderEstimates ==
    /\ pc = "calculated"
    /\ screen' = screen \o EstimateLines(calculations.value) \o Notes
    /\ pc' = "done"
    /\ UNCHANGED <<calcVars, uploaded_file, image_base64, request, response,
                   ai_analysis_result, calculations, api_calls, calc_calls>>

Next ==
    \/ NoUpload
    \/ Upload
    \/ Encode
    \/ SendRequest
    \/ ReceiveResponse
    \/ TestRaises
    \/ RenderFailure
    \/ RenderAnalysis
    \/ RunCalculations
    \/ RenderEstimates

Spec == Init /\ [][Next]_vars

----------------------------------------------------------------------------
(* Properties of perform_simplified_calculations (under SpecCalc) *)

CalcExit == cpc = "exit"
CalcOk == cpc = "exit" /\ ~ret.raised

\* the strings the call read, before lower(): the value, or 'N/A' for a missing key
ArgArea == Get(arg, "usable_area_qualitative", JStr(StrNA))
ArgSun == Get(arg, "sunlight_exposure", JStr(StrNA))

\* kw (lower case) occurs in s at some position, letters compared without case
SameLetter(c, k) ==
    c = k \/ \E i \in 1..26 : LowerChars[i] = k /\ UpperChars[i] = c
OccursIgnoringCase(kw, s) ==
    \E i \in 1..(Len(s) - Len(kw) + 1) :
        \A j \in 1..Len(kw) : SameLetter(s[i + j - 1], kw[j])

\* C1: perform_simplified_calculations returns a complete seven-field record
\* for every analysis record, whatever the two values are, and never raises.
C1_Total ==
    CalcExit => (~ret.raised /\ DOMAIN ret.value = EstimateKeys)

\* C2: the area is 600 if the string contains "large" (ignoring case), else
\* 300 if it contains "medium", else 100 if it contains "small", else 0 (also
\* for a missing key and the empty string); the first rule in that order wins.
C2_AreaLookup ==
    CalcOk =>
        ret.value.estimated_usable_sq_ft =
            (IF OccursIgnoringCase(KwLarge, ArgArea.v) THEN 600
             ELSE IF OccursIgnoringCase(KwMedium, ArgArea.v) THEN 300
             ELSE IF OccursIgnoringCase(KwSmall, ArgArea.v) THEN 100
             ELSE 0)

\* a mixed-case value with both "medium" and "large" in it resolved to 600
C2_Witness ==
    /\ CalcOk
    /\ "usable_area_qualitative" \in DOMAIN arg
    /\ OccursIgnoringCase(KwLarge, ArgArea.v)
    /\ OccursIgnoringCase(KwMedium, ArgArea.v)
    /\ ArgArea.v # Lower(ArgArea.v)
    /\ ret.value.estimated_usable_sq_ft = 600

\* C3: the production factor is 1.2 if the string contains "excellent"
\* (ignoring case), else 0.8 if it contains "moderate", else 0.5 if it contains
\* "poor" or "significant shading", else 1.0 (also for "good" and a missing key).
C3_ProductionFactor ==
    CalcOk =>
        ret.production_factor =
            (IF OccursIgnoringCase(KwExcellent, ArgSun.v) THEN Rat(6, 5)
             ELSE IF OccursIgnoringCase(KwModerate, ArgSun.v) THEN Rat(4, 5)
             ELSE IF \/ OccursIgnoringCase(KwPoor, ArgSun.v)
                     \/ OccursIgnoringCase(KwSignificantShading, ArgSun.v)
                  THEN Rat(1, 2)
             ELSE RatInt(1))

\* a mixed-case value with "significant shading" and without "poor" gave 0.5
C3_Witness ==
    /\ CalcOk
    /\ "sunlight_exposure" \in DOMAIN arg
    /\ OccursIgnoringCase(KwSignificantShading, ArgSun.v)
    /\ ~OccursIgnoringCase(KwPoor, ArgSun.v)
    /\ ArgSun.v # Lower(ArgSun.v)
    /\ ret.production_factor = Rat(1, 2)

\* C4: estimated_roi_years is the non-numeric sentinel iff the yearly savings
\* are 0; otherwise it is the number cost / savings, positive and finite when
\* the cost is positive.
C4_Roi ==
    CalcOk =>
        LET e == ret.value
            roi == e.estimated_roi_years
        IN  /\ (roi.t = "str") <=> (e.estimated_yearly_savings = RatZero)
            /\ roi.t # "str" =>
                 /\ roi.t = "float"
                 /\ roi.v.d > 0
                 /\ RatMul(roi.v, e.estimated_yearly_savings) = e.estimated_system_cost
                 /\ RatLess(RatZero, e.estimated_system_cost) => roi.v.n > 0

\* a numeric payback period came out of savings below 10
C4_Witness ==
    /\ CalcOk
    /\ ret.value.estimated_roi_years.t = "float"
    /\ RatLess(RatZero, ret.value.estimated_system_cost)
    /\ RatLess(RatZero, ret.value.estimated_yearly_savings)
    /\ RatLess(ret.value.estimated_yearly_savings, RatInt(10))

Example1 ==
    /\ CalcExit
    /\ arg = Dict(JStr(KwLarge), JStr(KwExcellent))

Example1Fields ==
    /\ ~ret.raised
    /\ ret.value.estimated_usable_sq_ft = 600
    /\ ret.value.estimated_panel_count = 33
    /\ ret.value.estimated_system_wattage = 13200
    /\ RoundTo(ret.value.estimated_yearly_kwh, 100) = 2218
    /\ RoundTo(ret.value.estimated_system_cost, 100) = 92400000
    /\ RoundTo(ret.value.estimated_yearly_savings, 100) = 14414
    /\ ret.value.estimated_roi_years.t = "float"
    /\ RatMul(ret.value.estimated_roi_years.v, ret.value.estimated_yearly_savings)
           = ret.value.estimated_system_cost

\* C6 as stated: for "large" / "excellent" the estimate is area 600, 33
\* panels, 13200 W, 22.18 kWh, cost 924000.00, savings 144.14 and a payback
\* period of about 6412 years.
C6_Example1_Original ==
    Example1 =>
        /\ Example1Fields
        /\ RoundTo(ret.value.estimated_roi_years.v, 1) = 6412

\* C6 amended: the same estimate, with a payback period of cost / savings =
\* 250000/39, about 6410.3 years.
C6_Example1 ==
    Example1 =>
        /\ Example1Fields
        /\ ret.value.estimated_roi_years.v = Rat(250000, 39)
        /\ RoundTo(ret.value.estimated_roi_years.v, 10) = 64103

C6_Witness == Example1 /\ ~ret.raised /\ ret.value.estimated_panel_count = 33

\* C7: the panel count is floor(area / 18) (0 for area 0), the wattage is
\* panels * 400, and (area, panels, wattage) is one of (0, 0, 0),
\* (100, 5, 2000), (300, 16, 6400), (600, 33, 13200).
C7_PanelsAndWattage ==
    CalcOk =>
        LET area == ret.value.estimated_usable_sq_ft
            panels == ret.value.estimated_panel_count
            wattage == ret.value.estimated_system_wattage
        IN  /\ panels * 18 <= area
            /\ area < (panels + 1) * 18
            /\ area = 0 => panels = 0
            /\ wattage = panels * 400
            /\ <<area, panels, wattage>> \in
                 { <<0, 0, 0>>, <<100, 5, 2000>>, <<300, 16, 6400>>, <<600, 33, 13200>> }

\* an area that 18 does not divide was floored
C7_Witness ==
    /\ CalcOk
    /\ ret.value.estimated_usable_sq_ft = 300
    /\ ret.value.estimated_panel_count = 16
    /\ ret.value.estimated_system_wattage = 6400

ReachableWattages == {2000, 6400, 13200}
ReachableFactors == {Rat(1, 2), Rat(4, 5), RatInt(1), Rat(6, 5)}

\* C8: the yearly kWh are 0 iff the wattage is 0; for a positive wattage they
\* are wattage * 1.4 * factor / 1000, strictly increasing in the wattage and
\* in the factor over the reachable wattages and factors.
C8_YearlyKwh ==
    CalcOk =>
        LET w == ret.value.estimated_system_wattage
            f == ret.production_factor
            kwh == ret.value.estimated_yearly_kwh
        IN  /\ (kwh = RatZero) <=> (w = 0)
            /\ w > 0 =>
                 /\ kwh.d > 0
                 /\ kwh.n * 10000 * f.d = w * 14 * f.n * kwh.d
                 /\ w \in ReachableWattages /\ f \in ReachableFactors
                 /\ \A w2 \in ReachableWattages :
                        w < w2 => RatLess(kwh, YearlyKwh(w2, f))
                 /\ \A f2 \in ReachableFactors :
                        RatLess(f, f2) => RatLess(kwh, YearlyKwh(w, f2))

\* a positive wattage below the largest, with a factor below the largest
C8_Witness ==
    /\ CalcOk
    /\ ret.value.estimated_system_wattage = 6400
    /\ ret.production_factor = Rat(4, 5)
    /\ ret.value.estimated_yearly_kwh = Rat(7168, 1000)

----------------------------------------------------------------------------
(* Properties of one run of main (under Spec) *)

Answered == response.kind # "none"

\* the reply carried a text for json.loads
GotText == response.kind = "reply" /\ response.choices > 0 /\ response.content.t = "str"

\* the record has the key 'error'
ErrorKeyPresent(x) == x.t = "obj" /\ "error" \in DOMAIN x.v

EscapedFromClient ==
    \E i \in 1..Len(screen) :
        screen[i].el = "exception" /\ screen[i].label = "get_roof_analysis_from_ai"

EstimatesShown ==
    \E i \in 1..Len(screen) : screen[i].label = "Estimated Usable Roof Area"

C9_Phases ==
    /\ api_calls \in {0, 1}
    /\ calc_calls \in {0, 1}
    /\ pc \in {"start", "uploaded", "encoded"} => api_calls = 0 /\ ~Answered
    /\ pc \in {"waiting", "analysed", "shown", "calculated"} => api_calls = 1
    /\ pc \in {"done", "crashed"} /\ uploaded_file.present => api_calls = 1 /\ Answered
    /\ api_calls = 1 =>
         /\ image_base64 = B64Encode(uploaded_file.bytes)
         /\ request.url = <<"data:image/jpeg;base64,">> \o image_base64
    /\ pc = "waiting" => ~Answered /\ calc_calls = 0 /\ ~EstimatesShown
    /\ calc_calls = 1 =>
         /\ Answered
         /\ api_calls = 1
         /\ ~ErrorKeyPresent(ai_analysis_result)
         /\ pc \in {"calculated", "done", "crashed"}
    /\ EstimatesShown => calc_calls = 1 /\ ~calculations.raised /\ pc = "done"
    /\ Answered /\ ErrorKeyPresent(ai_analysis_result) =>
         calc_calls = 0 /\ ~EstimatesShown /\ calculations = NotCalled

\* a run that went through all four phases
C9_Witness ==
    /\ pc = "done"
    /\ api_calls = 1
    /\ calc_calls = 1
    /\ EstimatesShown
    /\ ~ErrorKeyPresent(ai_analysis_result)
    /\ calculations.value.estimated_usable_sq_ft = 600

\* C10: main chooses between the failure path and the estimate path only by
\* the key 'error' of the record: at the end of a run that got a record, the
\* estimates were computed if and only if the key is absent.
C10_OnlyErrorKey ==
    (pc \in {"done", "crashed"} /\ Answered /\ ai_analysis_result.t = "obj") =>
        (calc_calls = 1 <=> ~ErrorKeyPresent(ai_analysis_result))

====
